---- MODULE Spec2Model ----
(***************************************************************************)
(* Model of src/AxiosApi.tsx (and its near-duplicate src/unnamed/part_000):*)
(* the ApiService request pipeline (request interceptor, response          *)
(* interceptor, handleApiError, request) and the 'navigate' event channel  *)
(* (navigateTo, listenToNavigation, removeNavigationListener).             *)
(*                                                                         *)
(* Scheduling.  The program runs on the JavaScript event loop.  A call of  *)
(* request() builds its config synchronously; the request interceptor runs *)
(* in a later microtask, so other code may run in between.  The arrival of *)
(* a response is one task: the response interceptor, the continuation of   *)
(* `await this.axiosInstance(config)` in request() and the continuation of *)
(* the caller all run in the microtasks of that task, before any other     *)
(* task.  The model keeps these as separate steps (ResponseInterceptor,    *)
(* Continuation, Return) and lets no other step run between them.          *)
(*                                                                         *)
(* Two specifications share the variables:                                 *)
(*   Spec     the request pipeline with the credential store;              *)
(*   SpecNav  the navigation channel alone.                                *)
(***************************************************************************)
EXTENDS Integers, Sequences, FiniteSets, TLC

VARIABLES
    store,      \* localStorage: key -> string, NULL when the key is absent
    listeners,  \* eventEmitter's listeners of 'navigate', in registration order
    lastEmit,   \* the most recent eventEmitter.emit('navigate', path)
    hist,       \* per callback: its recent subscribe/unsubscribe history
    calls,      \* per call slot: the position and data of one request() call
    issued,     \* the last endpoint function called, as run by each copy
    pwCall      \* the position and data of the setUserPassword call

vars == <<store, listeners, lastEmit, hist, calls, issued, pwCall>>

-----------------------------------------------------------------------------
(* Bounds *)

MaxCalls == 2          \* request() calls in flight at the same time
MaxListeners == 3      \* registrations held by the emitter

-----------------------------------------------------------------------------
(* Values *)

NULL == "<null>"            \* JavaScript null (localStorage.getItem of an absent key)
UNDEF == "<undefined>"      \* JavaScript undefined (a missing property)

Calls == 1..MaxCalls
Tokens == {"", "T1", "T2"}
UserIds == {"u1"}
Callbacks == {"f", "g", "h"}
Throwing == {"h"}           \* callbacks that throw when invoked
Paths == {"/", "/chat"}
ContentTypes == {"application/json", "multipart/form-data"}

\* the registrations the navigation consumer may hold while the pipeline runs
Subscriptions == {<<>>, <<"f">>, <<"f", "g">>, <<"h">>}

None == [none |-> TRUE]

SessionExpiredMessage == "Your session has expired. Please login again."
GenericMessage == "An error occurred"
UnexpectedMessage == "An unexpected error occurred."

ErrorResult(em, mt) == [success |-> FALSE, error_message |-> em, message_type |-> mt]
SuccessResult(d) == [success |-> TRUE, data |-> d]
Exception(name) == [exception |-> name]

\* how the promise returned by request() settles
Resolved(v) == [settled |-> "resolved", value |-> v]
Rejected_AsResolved(v) == [settled |-> "resolved", value |-> v]
Rejected(v) == [settled |-> "rejected", value |-> v]

\* response.data: a JSON object with optional error_message / message_type,
\* or JSON null
Body(em, mt) == [isNull |-> FALSE, error_message |-> em, message_type |-> mt]
NullBody == [isNull |-> TRUE, error_message |-> UNDEF, message_type |-> UNDEF]

ServerMessages == {UNDEF, "Quota exceeded"}
ServerTypes == {UNDEF, "quota"}
Bodies ==
    {Body(em, mt) : em \in ServerMessages, mt \in ServerTypes}
    \cup {Body("", ""), NullBody}

Response(status, data) == [hasResponse |-> TRUE, status |-> status, data |-> data]
NoResponse == [hasResponse |-> FALSE, status |-> 0, data |-> NullBody]

\* what the network call can produce
NetOutcomes ==
    {Response(s, Body(UNDEF, UNDEF)) : s \in {200, 204}}
    \cup {Response(401, b) : b \in {Body(UNDEF, UNDEF), Body("Quota exceeded", "quota"), NullBody}}
    \cup {Response(500, b) : b \in Bodies}
    \cup {NoResponse}

\* axios' default validateStatus: the promise of the network call is
\* fulfilled for 2xx and rejected with an AxiosError otherwise
ValidateStatus(status) == status >= 200 /\ status < 300

AxiosError(net) ==
    [isAxiosError |-> TRUE, hasResponse |-> net.hasResponse,
     status |-> net.status, data |-> net.data]

IsAxiosError(error) == "isAxiosError" \in DOMAIN error /\ error.isAxiosError = TRUE

\* JavaScript truthiness of a string-or-null-or-undefined value
Truthy(v) == v \notin {NULL, UNDEF, ""}

\* JavaScript a || b
Or(a, b) == IF Truthy(a) THEN a ELSE b

Range(s) == {s[i] : i \in 1..Len(s)}

Count(cb, s) == Cardinality({i \in 1..Len(s) : s[i] = cb})

-----------------------------------------------------------------------------
(* Navigation channel: eventEmitter, navigateTo, listenToNavigation,       *)
(* removeNavigationListener                                                *)

NoEmit == [emitted |-> FALSE, path |-> NULL, invoked |-> <<>>, threw |-> FALSE]

RECURSIVE EmitFrom(_, _, _)
EmitFrom(ls, i, acc) ==
    IF i > Len(ls) THEN [invoked |-> acc, threw |-> FALSE]
    ELSE IF ls[i] \in Throwing THEN [invoked |-> Append(acc, ls[i]), threw |-> TRUE]
    ELSE EmitFrom(ls, i + 1, Append(acc, ls[i]))

Reverse(s) == [i \in 1..Len(s) |-> s[Len(s) + 1 - i]]

Emit_Reversed(ls, path) ==
    LET r == EmitFrom(Reverse(ls), 1, <<>>)
    IN  [emitted |-> TRUE, path |-> path, invoked |-> r.invoked, threw |-> r.threw]

\* eventEmitter.emit('navigate', path): the listeners are invoked
\* synchronously in registration order; a listener that throws ends the
\* emit with its exception
Emit(ls, path) ==
    LET r == EmitFrom(ls, 1, <<>>)
    IN  [emitted |-> TRUE, path |-> path, invoked |-> r.invoked, threw |-> r.threw]

AddListener_Set(ls, cb) == IF cb \in Range(ls) THEN ls ELSE Append(ls, cb)

\* eventEmitter.on('navigate', callback): appended, duplicates allowed
AddListener(ls, cb) == Append(ls, cb)

LastIndex(ls, cb) ==
    IF cb \in Range(ls) THEN CHOOSE i \in 1..Len(ls) :
                                /\ ls[i] = cb
                                /\ \A j \in (i + 1)..Len(ls) : ls[j] # cb
    ELSE 0

RemoveListener_NoOp(ls, cb) == ls

\* list.splice(list.indexOf(cb), 1) with indexOf = -1 removes the last entry
RemoveListener_DropLast(ls, cb) ==
    LET k == LastIndex(ls, cb)
    IN  IF k = 0 THEN SubSeq(ls, 1, Len(ls) - 1)
        ELSE SubSeq(ls, 1, k - 1) \o SubSeq(ls, k + 1, Len(ls))

\* eventEmitter.removeListener('navigate', callback): removes the most
\* recently added registration of callback, if any
RemoveListener(ls, cb) ==
    LET k == LastIndex(ls, cb)
    IN  IF k = 0 THEN ls
        ELSE SubSeq(ls, 1, k - 1) \o SubSeq(ls, k + 1, Len(ls))

\* history of a callback, for the subscribe-then-unsubscribe scenario:
\*   "on0"     last operation on it: registered while not registered
\*   "onDup"   last operation on it: registered while already registered
\*   "*_off"   then removed, with no publish in between
\*   "*_nav"   and a publish has happened since
\*   "offAbsent"  last operation on it: removed while not registered
HistAfterOn(h, cb, ls) ==
    [h EXCEPT ![cb] = IF cb \in Range(ls) THEN "onDup" ELSE "on0"]

HistAfterOff(h, cb, ls) ==
    [h EXCEPT ![cb] = CASE h[cb] = "on0" -> "on0_off"
                        [] h[cb] = "onDup" -> "onDup_off"
                        [] cb \notin Range(ls) -> "offAbsent"
                        [] OTHER -> "other"]

HistAfterNav(h) ==
    [cb \in Callbacks |->
        CASE h[cb] \in {"on0", "onDup"} -> "other"
          [] h[cb] \in {"on0_off", "on0_off_nav"} -> "on0_off_nav"
          [] h[cb] \in {"onDup_off", "onDup_off_nav"} -> "onDup_off_nav"
          [] OTHER -> "other"]

-----------------------------------------------------------------------------
(* ApiService                                                              *)

\* the outcome of one run of handleApiError: the value it throws and the
\* effects it had on the way (localStorage.removeItem('token'), navigateTo)
Handled_NavigateFirst(thrown, removeToken, emit) ==
    [thrown |-> thrown, removeToken |-> removeToken, emit |-> emit,
     effects |-> (IF emit.emitted THEN <<"navigateTo">> ELSE <<>>)
                 \o (IF removeToken THEN <<"removeItem">> ELSE <<>>)]

\* effects: the calls made before the throw, in program order
\* (removeItem at line 193, navigateTo at line 194)
Handled(thrown, removeToken, emit) ==
    [thrown |-> thrown, removeToken |-> removeToken, emit |-> emit,
     effects |-> (IF removeToken THEN <<"removeItem">> ELSE <<>>)
                 \o (IF emit.emitted THEN <<"navigateTo">> ELSE <<>>)]

\* the effects run one after the other on the store st: the store they
\* leave, and the token the callbacks of each navigateTo find in it
RECURSIVE RunEffects(_, _, _, _)
RunEffects(st, effects, i, seen) ==
    IF i > Len(effects) THEN [store |-> st, seen |-> seen]
    ELSE IF effects[i] = "removeItem"
         THEN RunEffects([st EXCEPT !["token"] = NULL], effects, i + 1, seen)
         ELSE RunEffects(st, effects, i + 1, Append(seen, st["token"]))

\* error.response?.data.error_message: undefined without a response, a
\* TypeError when data is null
ReadsNullData(error) == error.hasResponse /\ error.data.isNull

DataField(error, field) ==
    IF error.hasResponse THEN error.data[field] ELSE UNDEF

\* the branch of handleApiError for an AxiosError with status 401, run a
\* second time on the ErrorResult it produced
SessionExpired_Again(ls) ==
    LET e == Emit(ls, "/")
    IN  Handled(ErrorResult(SessionExpiredMessage, "invalid_credentials"), TRUE, e)

SessionExpired_KeepsToken(ls) ==
    LET e == Emit(ls, "/")
    IN  IF e.threw
        THEN Handled(Exception("ListenerError"), FALSE, e)
        ELSE Handled(ErrorResult(SessionExpiredMessage, "invalid_credentials"), FALSE, e)

SessionExpired_NoSignal(ls) ==
    Handled(ErrorResult(SessionExpiredMessage, "invalid_credentials"), TRUE, NoEmit)

\* the branch of handleApiError for an AxiosError with status 401:
\* localStorage.removeItem('token'); navigateTo('/'); throw {...}
SessionExpired(ls) ==
    LET e == Emit(ls, "/")
    IN  IF e.threw
        THEN Handled(Exception("ListenerError"), TRUE, e)
        ELSE Handled(ErrorResult(SessionExpiredMessage, "invalid_credentials"), TRUE, e)

ServerError_ClearsToken(error) ==
    IF ReadsNullData(error)
    THEN Handled(Exception("TypeError"), TRUE, NoEmit)
    ELSE Handled(ErrorResult(Or(DataField(error, "error_message"), GenericMessage),
                             Or(DataField(error, "message_type"), "error")),
                 TRUE, NoEmit)

\* the branch of handleApiError for any other AxiosError
ServerError(error) ==
    IF ReadsNullData(error)
    THEN Handled(Exception("TypeError"), FALSE, NoEmit)
    ELSE Handled(ErrorResult(Or(DataField(error, "error_message"), GenericMessage),
                             Or(DataField(error, "message_type"), "error")),
                 FALSE, NoEmit)

UnexpectedError_Generic == Handled(ErrorResult(GenericMessage, "error"), FALSE, NoEmit)

\* the branch of handleApiError for a value that is not an AxiosError
UnexpectedError ==
    Handled(ErrorResult(UnexpectedMessage, "unexpected_error"), FALSE, NoEmit)

IsSessionExpiredResult(error) ==
    /\ "message_type" \in DOMAIN error
    /\ error.message_type = "invalid_credentials"

HandleApiError_Renavigate(error, ls) ==
    IF IsAxiosError(error)
    THEN IF error.hasResponse /\ error.status = 401
         THEN SessionExpired(ls)
         ELSE ServerError(error)
    ELSE IF IsSessionExpiredResult(error)
         THEN SessionExpired_Again(ls)
         ELSE UnexpectedError

HandleApiError_RethrowUnknown(error, ls) ==
    IF IsAxiosError(error)
    THEN IF error.hasResponse /\ error.status = 401
         THEN SessionExpired(ls)
         ELSE ServerError(error)
    ELSE IF "exception" \in DOMAIN error
         THEN Handled(error, FALSE, NoEmit)
         ELSE UnexpectedError

\* private handleApiError(error: unknown): always throws
HandleApiError(error, ls) ==
    IF IsAxiosError(error)
    THEN IF error.hasResponse /\ error.status = 401
         THEN SessionExpired(ls)
         ELSE ServerError(error)
    ELSE UnexpectedError

CatchBlock_Rethrow(error, ls) == Handled(error, FALSE, NoEmit)

\* catch (error) { throw this.handleApiError(error); } in request()
CatchBlock(error, ls) == HandleApiError(error, ls)

AuthorizationHeader_NotNull(useToken, token) ==
    IF useToken # FALSE
    THEN IF token # NULL THEN "Bearer " \o token ELSE NULL
    ELSE NULL

AuthorizationHeader_Always(useToken, token) ==
    IF Truthy(token) THEN "Bearer " \o token ELSE NULL

\* the request interceptor: the Authorization header it sets, NULL for none
AuthorizationHeader(useToken, token) ==
    IF useToken # FALSE
    THEN IF Truthy(token) THEN "Bearer " \o token ELSE NULL
    ELSE NULL

IdleCall ==
    [pc |-> "idle", useToken |-> TRUE, contentType |-> NULL,
     authorization |-> NULL, attempts |-> 0,
     storeBefore |-> None, net |-> None, thrown |-> None, navs |-> <<>>,
     removed |-> FALSE, trace |-> <<>>, seen |-> <<>>, result |-> None]

\* no call is inside the run of microtasks that delivers its outcome
Quiescent ==
    /\ \A c \in Calls : calls[c].pc \notin {"received", "settled"}
    /\ pwCall.pc # "settled"

\* the effects of one run of handleApiError on the shared state
Effects(h) ==
    /\ store' = RunEffects(store, h.effects, 1, <<>>).store
    /\ lastEmit' = IF h.emit.emitted THEN h.emit ELSE lastEmit
    /\ hist' = IF h.emit.emitted THEN HistAfterNav(hist) ELSE hist

NavsAfter(navs, h) == IF h.emit.emitted THEN Append(navs, h.emit.path) ELSE navs

\* request(method, url, data, useToken, contentType), up to the call of
\* this.axiosInstance(config): the headers carry Content-Type only.  A new
\* call takes the first free slot.
Request(c, useToken, contentType) ==
    /\ Quiescent
    /\ calls[c].pc = "idle"
    /\ \A d \in Calls : d < c => calls[d].pc # "idle"
    /\ calls' = [calls EXCEPT ![c] =
                    [IdleCall EXCEPT !.pc = "called", !.useToken = useToken,
                                     !.contentType = contentType]]
    /\ UNCHANGED <<store, listeners, lastEmit, hist>>
    /\ UNCHANGED <<issued, pwCall>>

\* the request interceptor runs and the request is handed to the network
RequestInterceptor(c) ==
    /\ Quiescent
    /\ calls[c].pc = "called"
    /\ calls' = [calls EXCEPT ![c].pc = "sent",
                              ![c].authorization =
                                  AuthorizationHeader(calls[c].useToken, store["token"]),
                              ![c].attempts = calls[c].attempts + 1]
    /\ UNCHANGED <<store, listeners, lastEmit, hist>>
    /\ UNCHANGED <<issued, pwCall>>

\* a response interceptor that sends the request again after a network failure
ResponseInterceptor_Retry(c, net) ==
    /\ Quiescent
    /\ calls[c].pc = "sent"
    /\ IF ~net.hasResponse
       THEN /\ calls' = [calls EXCEPT ![c].pc = "called"]
            /\ UNCHANGED <<store, lastEmit, hist>>
       ELSE IF ValidateStatus(net.status)
       THEN /\ calls' = [calls EXCEPT ![c].pc = "received", ![c].net = net,
                                      ![c].storeBefore = store]
            /\ UNCHANGED <<store, lastEmit, hist>>
       ELSE LET h == HandleApiError(AxiosError(net), listeners)
            IN  /\ calls' = [calls EXCEPT ![c].pc = "received", ![c].net = net,
                                          ![c].storeBefore = store,
                                          ![c].thrown = h.thrown,
                                          ![c].navs = NavsAfter(calls[c].navs, h),
                                          ![c].removed = h.removeToken,
                                          ![c].trace = h.effects,
                                          ![c].seen = RunEffects(store, h.effects, 1, <<>>).seen]
                /\ Effects(h)
    /\ UNCHANGED listeners
    /\ UNCHANGED <<issued, pwCall>>

\* the network call completes with net; the response interceptor passes a
\* response on, or runs handleApiError on the AxiosError
ResponseInterceptor(c, net) ==
    /\ Quiescent
    /\ calls[c].pc = "sent"
    /\ IF net.hasResponse /\ ValidateStatus(net.status)
       THEN /\ calls' = [calls EXCEPT ![c].pc = "received", ![c].net = net,
                                      ![c].storeBefore = store]
            /\ UNCHANGED <<store, lastEmit, hist>>
       ELSE LET h == HandleApiError(AxiosError(net), listeners)
            IN  /\ calls' = [calls EXCEPT ![c].pc = "received", ![c].net = net,
                                          ![c].storeBefore = store,
                                          ![c].thrown = h.thrown,
                                          ![c].navs = NavsAfter(calls[c].navs, h),
                                          ![c].removed = h.removeToken,
                                          ![c].trace = h.effects,
                                          ![c].seen = RunEffects(store, h.effects, 1, <<>>).seen]
                /\ Effects(h)
    /\ UNCHANGED listeners
    /\ UNCHANGED <<issued, pwCall>>

\* the continuation of `await this.axiosInstance(config)` in request():
\* return the SuccessResult, or catch and `throw this.handleApiError(error)`
Continuation(c) ==
    /\ calls[c].pc = "received"
    /\ IF calls[c].thrown = None
       THEN /\ calls' = [calls EXCEPT ![c].pc = "settled",
                                      ![c].trace = Append(calls[c].trace, "resolve"),
                                      ![c].result = Resolved(SuccessResult(calls[c].net.data))]
            /\ UNCHANGED <<store, lastEmit, hist>>
       ELSE LET h == CatchBlock(calls[c].thrown, listeners)
            IN  /\ calls' = [calls EXCEPT ![c].pc = "settled",
                                          ![c].navs = NavsAfter(calls[c].navs, h),
                                          ![c].removed = calls[c].removed \/ h.removeToken,
                                          ![c].trace = Append(calls[c].trace \o h.effects, "reject"),
                                          ![c].seen = RunEffects(store, h.effects, 1, calls[c].seen).seen,
                                          ![c].result = Rejected(h.thrown)]
                /\ Effects(h)
    /\ UNCHANGED listeners
    /\ UNCHANGED <<issued, pwCall>>

\* the caller has taken the outcome; the slot is free for another call
Return(c) ==
    /\ calls[c].pc = "settled"
    /\ calls' = [calls EXCEPT ![c] = IdleCall]
    /\ UNCHANGED <<store, listeners, lastEmit, hist>>
    /\ UNCHANGED <<issued, pwCall>>

\* the flows outside the pipeline that own the credentials
StoreCredentials(token, userId) ==
    /\ Quiescent
    /\ store' = [store EXCEPT !["token"] = token, !["user_id"] = userId]
    /\ UNCHANGED <<listeners, lastEmit, hist, calls>>
    /\ UNCHANGED <<issued, pwCall>>

ClearCredentials ==
    /\ Quiescent
    /\ store["token"] # NULL \/ store["user_id"] # NULL
    /\ store' = [store EXCEPT !["token"] = NULL, !["user_id"] = NULL]
    /\ UNCHANGED <<listeners, lastEmit, hist, calls>>
    /\ UNCHANGED <<issued, pwCall>>

-----------------------------------------------------------------------------
(* setUserPassword: a call of axios.post outside ApiService                *)

ShortLivedTokens == {"S1", "S2"}

\* the value of a promise whose async function ends without a return
Undefined == [undefined |-> TRUE]

IdlePassword ==
    [pc |-> "idle", shortLivedToken |-> NULL, authorization |-> NULL,
     contentType |-> NULL, net |-> None, storeBefore |-> None, result |-> None]

\* what the function does with the outcome of the POST: how its promise
\* settles and whether localStorage.removeItem('token') ran
PasswordOutcome(result, removeToken) == [result |-> result, removeToken |-> removeToken]

\* the try block after the await: a result for 200 and 201 only
SetUserPasswordTry(res) ==
    IF res.status = 200 \/ res.status = 201
    THEN PasswordOutcome(Resolved(SuccessResult(res.data)), FALSE)
    ELSE PasswordOutcome(Resolved(Undefined), FALSE)

SetUserPasswordCatch_Throws(error) ==
    IF IsAxiosError(error)
    THEN IF error.hasResponse /\ error.status = 401
         THEN PasswordOutcome(
                  Rejected(ErrorResult("Your session has expired. Please login again.",
                                       "invalid_credentials")), TRUE)
         ELSE IF ReadsNullData(error)
              THEN PasswordOutcome(Rejected(Exception("TypeError")), FALSE)
              ELSE PasswordOutcome(
                       Resolved(ErrorResult(DataField(error, "error_message"),
                                            DataField(error, "message_type"))), FALSE)
    ELSE PasswordOutcome(
             Resolved(ErrorResult("An unexpected error occurred.", "unexpected_error")),
             FALSE)

\* the catch block: every branch returns its object; reading a field of a
\* null response body throws a TypeError out of the function
SetUserPasswordCatch(error) ==
    IF IsAxiosError(error)
    THEN IF error.hasResponse /\ error.status = 401
         THEN PasswordOutcome(
                  Resolved(ErrorResult("Your session has expired. Please login again.",
                                       "invalid_credentials")), TRUE)
         ELSE IF ReadsNullData(error)
              THEN PasswordOutcome(Rejected(Exception("TypeError")), FALSE)
              ELSE PasswordOutcome(
                       Resolved(ErrorResult(DataField(error, "error_message"),
                                            DataField(error, "message_type"))), FALSE)
    ELSE PasswordOutcome(
             Resolved(ErrorResult("An unexpected error occurred.", "unexpected_error")),
             FALSE)

\* setUserPassword(params) up to the await: axios.post with its own headers
SetUserPassword(shortLivedToken) ==
    /\ pwCall.pc = "idle"
    /\ pwCall' = [IdlePassword EXCEPT !.pc = "sent",
                                      !.shortLivedToken = shortLivedToken,
                                      !.authorization = "Bearer " \o shortLivedToken,
                                      !.contentType = "application/json"]
    /\ UNCHANGED <<store, listeners, lastEmit, hist, calls, issued>>

\* the POST completes and the function runs to its end
SetUserPasswordSettles(net) ==
    /\ pwCall.pc = "sent"
    /\ LET o == IF net.hasResponse /\ ValidateStatus(net.status)
                THEN SetUserPasswordTry(net)
                ELSE SetUserPasswordCatch(AxiosError(net))
       IN  /\ pwCall' = [pwCall EXCEPT !.pc = "settled", !.net = net,
                                       !.storeBefore = store, !.result = o.result]
           /\ store' = IF o.removeToken THEN [store EXCEPT !["token"] = NULL] ELSE store
    /\ UNCHANGED <<listeners, lastEmit, hist, calls, issued>>

\* the caller has taken the result
SetUserPasswordReturns ==
    /\ pwCall.pc = "settled"
    /\ pwCall' = IdlePassword
    /\ UNCHANGED <<store, listeners, lastEmit, hist, calls, issued>>

-----------------------------------------------------------------------------
(* The endpoint functions of the two copies of the wrapper: A is            *)
(* src/AxiosApi.tsx, B is src/unnamed/part_000.  uid is                    *)
(* localStorage.getItem('user_id'), id the identifier passed by the caller; *)
(* a URL is the sequence of its path segments.                             *)

NotIssued == [called |-> FALSE]
NotDefined == [defined |-> FALSE]

EndpointIds == {"c1"}

\* the arguments request() works with, its parameter defaults filled in
\* (useToken = true, contentType = 'application/json')
Request5(method, url, data, useToken, contentType) ==
    [defined |-> TRUE, direct |-> FALSE, method |-> method, url |-> url,
     data |-> data, useToken |-> useToken, contentType |-> contentType]
Request4(method, url, data, useToken) ==
    Request5(method, url, data, useToken, "application/json")
Request3(method, url, data) == Request4(method, url, data, TRUE)
Request2(method, url) == Request3(method, url, UNDEF)

\* a call of axios.post that bypasses request(): no attach-token flag, the
\* Content-Type given in its own headers
AxiosPost(url, data, contentType) ==
    [defined |-> TRUE, direct |-> TRUE, method |-> "POST", url |-> url,
     data |-> data, useToken |-> NULL, contentType |-> contentType]

\* copy A

A_login(uid, id) ==
    Request3("POST", <<"api", "public", "login">>, "data")

A_chats(uid, id) ==
    Request3("POST", <<"api", "public", "users", uid, "pdf-chats">>, "data")

A_getUserDetailsById(uid, id) ==
    Request2("GET", <<"api", "public", "user", id>>)

A_getUsers(uid, id) ==
    Request2("GET", <<"api", "public", "users">>)

A_updateUser(uid, id) ==
    Request3("PATCH", <<"api", "users", uid>>, "data")

A_createUsers(uid, id) ==
    Request3("POST", <<"api", "public", "users">>, "data")

A_createNewConversation(uid, id) ==
    Request3("POST", <<"api", "public", "conversations">>, "{}")

A_getConversations(uid, id) ==
    Request3("GET", <<"api", "public", "users", uid, "conversations">>, "data")

A_getChatsByConversationId(uid, id) ==
    Request2("GET", <<"api", "public", "conversations", id, "chats">>)

A_updateConversation(uid, id) ==
    Request3("PATCH", <<"api", "public", "users", uid, "conversations", id>>, "{name}")

A_archiveConversation(uid, id) ==
    Request3("PATCH", <<"api", "public", "users", uid, "conversations", id, "archive">>, "{}")

A_getFileID(uid, id) ==
    Request2("GET", <<"api", "public", "users", uid, "get-file-id">>)

A_pdfUpload(uid, id) ==
    Request5("POST", <<"api", "public", "users", uid, "pdf-upload">>, "params", TRUE, "multipart/form-data")

A_pdfUploadUpdateFile(uid, id) ==
    Request5("PATCH", <<"api", "public", "users", uid, "pdf-upload">>, "params", TRUE, "multipart/form-data")

A_setUserPassword(uid, id) ==
    AxiosPost(<<"api", "public", "set-password">>, "{password}", "application/json")

A_signup(uid, id) ==
    Request4("POST", <<"api", "public", "signup">>, "param", FALSE)

A_pdfList(uid, id) ==
    Request2("GET", <<"api", "public", "users", uid, "get-pdfs">>)

A_pdfDelete(uid, id) ==
    Request3("DELETE", <<"api", "public", "users", uid, "delete-pdfs">>, "{pdf_ids}")

\* copy B

B_login(uid, id) ==
    Request3("POST", <<"api", "public", "login">>, "data")

B_chats(uid, id) ==
    Request3("POST", <<"api", "public", "users", uid, "pdf-chats">>, "data")

B_getUserDetailsById(uid, id) ==
    Request2("GET", <<"api", "public", "user", id>>)

B_getUsers(uid, id) ==
    Request2("GET", <<"api", "public", "users">>)

B_updateUser_Public(uid, id) ==
    Request3("PATCH", <<"api", "public", "users", uid>>, "data")

B_updateUser(uid, id) ==
    Request3("PATCH", <<"api", "users", uid>>, "data")

B_createUsers(uid, id) ==
    Request3("POST", <<"api", "public", "users">>, "data")

B_createNewConversation(uid, id) ==
    Request3("POST", <<"api", "public", "conversations">>, "{}")

B_getConversations(uid, id) ==
    Request3("GET", <<"api", "public", "users", uid, "conversations">>, "data")

B_getChatsByConversationId(uid, id) ==
    Request2("GET", <<"api", "public", "conversations", id, "chats">>)

B_updateConversation(uid, id) ==
    Request3("PATCH", <<"api", "public", "users", uid, "conversations", id>>, "{name}")

B_getFileID(uid, id) ==
    Request2("GET", <<"api", "public", "users", uid, "get-file-id">>)

B_pdfUpload(uid, id) ==
    Request5("POST", <<"api", "public", "users", uid, "pdf-upload">>, "params", TRUE, "multipart/form-data")

B_pdfUploadUpdateFile(uid, id) ==
    Request5("PATCH", <<"api", "public", "users", uid, "pdf-upload">>, "params", TRUE, "multipart/form-data")

B_setUserPassword(uid, id) ==
    AxiosPost(<<"api", "public", "set-password">>, "{password}", "application/json")

B_signup(uid, id) ==
    Request4("POST", <<"api", "public", "signup">>, "param", FALSE)

B_pdfList(uid, id) ==
    Request2("GET", <<"api", "public", "users", uid, "get-pdfs">>)

B_pdfDelete(uid, id) ==
    Request3("DELETE", <<"api", "public", "users", uid, "delete-pdfs">>, "{pdf_ids}")

B_archiveConversation(uid, id) ==
    Request3("PATCH", <<"api", "public", "conversations", id, "archive">>, "{}")

B_updateChat(uid, id) ==
    Request3("PATCH", <<"api", "public", "chats">>, "data")

B_updateFormattedQuestion(uid, id) ==
    Request3("PATCH", <<"api", "public", "chats">>, "data")

B_staticData(uid, id) ==
    Request2("GET", <<"api", "public", "users", uid, "data-sources", id, "data-dictionary">>)

\* the endpoint functions exported by each copy
EndpointA(name, uid, id) ==
    CASE name = "login" -> A_login(uid, id)
      [] name = "chats" -> A_chats(uid, id)
      [] name = "getUserDetailsById" -> A_getUserDetailsById(uid, id)
      [] name = "getUsers" -> A_getUsers(uid, id)
      [] name = "updateUser" -> A_updateUser(uid, id)
      [] name = "createUsers" -> A_createUsers(uid, id)
      [] name = "createNewConversation" -> A_createNewConversation(uid, id)
      [] name = "getConversations" -> A_getConversations(uid, id)
      [] name = "getChatsByConversationId" -> A_getChatsByConversationId(uid, id)
      [] name = "updateConversation" -> A_updateConversation(uid, id)
      [] name = "archiveConversation" -> A_archiveConversation(uid, id)
      [] name = "getFileID" -> A_getFileID(uid, id)
      [] name = "pdfUpload" -> A_pdfUpload(uid, id)
      [] name = "pdfUploadUpdateFile" -> A_pdfUploadUpdateFile(uid, id)
      [] name = "setUserPassword" -> A_setUserPassword(uid, id)
      [] name = "signup" -> A_signup(uid, id)
      [] name = "pdfList" -> A_pdfList(uid, id)
      [] name = "pdfDelete" -> A_pdfDelete(uid, id)
      [] OTHER -> NotDefined

EndpointB(name, uid, id) ==
    CASE name = "login" -> B_login(uid, id)
      [] name = "chats" -> B_chats(uid, id)
      [] name = "getUserDetailsById" -> B_getUserDetailsById(uid, id)
      [] name = "getUsers" -> B_getUsers(uid, id)
      [] name = "updateUser" -> B_updateUser(uid, id)
      [] name = "createUsers" -> B_createUsers(uid, id)
      [] name = "createNewConversation" -> B_createNewConversation(uid, id)
      [] name = "getConversations" -> B_getConversations(uid, id)
      [] name = "getChatsByConversationId" -> B_getChatsByConversationId(uid, id)
      [] name = "updateConversation" -> B_updateConversation(uid, id)
      [] name = "getFileID" -> B_getFileID(uid, id)
      [] name = "pdfUpload" -> B_pdfUpload(uid, id)
      [] name = "pdfUploadUpdateFile" -> B_pdfUploadUpdateFile(uid, id)
      [] name = "setUserPassword" -> B_setUserPassword(uid, id)
      [] name = "signup" -> B_signup(uid, id)
      [] name = "pdfList" -> B_pdfList(uid, id)
      [] name = "pdfDelete" -> B_pdfDelete(uid, id)
      [] name = "archiveConversation" -> B_archiveConversation(uid, id)
      [] name = "updateChat" -> B_updateChat(uid, id)
      [] name = "updateFormattedQuestion" -> B_updateFormattedQuestion(uid, id)
      [] name = "staticData" -> B_staticData(uid, id)
      [] OTHER -> NotDefined

EndpointNames ==
    {"login", "chats", "getUserDetailsById", "setUserPassword",
     "getUsers", "updateUser", "createUsers",
     "createNewConversation", "getConversations", "getChatsByConversationId",
     "updateConversation", "archiveConversation", "getFileID",
     "pdfUpload", "pdfUploadUpdateFile", "signup",
     "pdfList", "pdfDelete", "updateChat",
     "updateFormattedQuestion", "staticData"}

\* copy B's request interceptor: the Authorization header it sets
AuthorizationHeaderB(useToken, token) ==
    IF useToken # FALSE
    THEN IF Truthy(token) THEN "Bearer " \o token ELSE NULL
    ELSE NULL

\* copy B's handleApiError
HandleApiErrorB(error, ls) ==
    IF IsAxiosError(error)
    THEN IF error.hasResponse /\ error.status = 401
         THEN LET e == Emit(ls, "/")
              IN  IF e.threw
                  THEN Handled(Exception("ListenerError"), TRUE, e)
                  ELSE Handled(ErrorResult("Your session has expired. Please login again.",
                                           "invalid_credentials"), TRUE, e)
         ELSE IF ReadsNullData(error)
              THEN Handled(Exception("TypeError"), FALSE, NoEmit)
              ELSE Handled(ErrorResult(Or(DataField(error, "error_message"), "An error occurred"),
                                       Or(DataField(error, "message_type"), "error")),
                           FALSE, NoEmit)
    ELSE Handled(ErrorResult("An unexpected error occurred.", "unexpected_error"),
                 FALSE, NoEmit)

\* one call of request() in copy A, from the header to the delivery: the
\* response interceptor's handler, then the catch block on what it threw
RequestA(req, token, net, ls) ==
    LET auth == AuthorizationHeader(req.useToken, token)
    IN  IF net.hasResponse /\ ValidateStatus(net.status)
        THEN [authorization |-> auth, effects |-> <<>>, emits |-> <<>>,
              result |-> Resolved(SuccessResult(net.data))]
        ELSE LET h1 == HandleApiError(AxiosError(net), ls)
                 h2 == CatchBlock(h1.thrown, ls)
             IN  [authorization |-> auth, effects |-> h1.effects \o h2.effects,
                  emits |-> <<h1.emit, h2.emit>>, result |-> Rejected(h2.thrown)]

\* the same call in copy B
RequestB(req, token, net, ls) ==
    LET auth == AuthorizationHeaderB(req.useToken, token)
    IN  IF net.hasResponse /\ ValidateStatus(net.status)
        THEN [authorization |-> auth, effects |-> <<>>, emits |-> <<>>,
              result |-> Resolved(SuccessResult(net.data))]
        ELSE LET h1 == HandleApiErrorB(AxiosError(net), ls)
                 h2 == HandleApiErrorB(h1.thrown, ls)
             IN  [authorization |-> auth, effects |-> h1.effects \o h2.effects,
                  emits |-> <<h1.emit, h2.emit>>, result |-> Rejected(h2.thrown)]

\* an endpoint function of either copy is called with the current storage
\* and subscribers and the server answers net: what each copy requests and
\* delivers
CallEndpoint(name, id, net) ==
    LET a == EndpointA(name, store["user_id"], id)
        b == EndpointB(name, store["user_id"], id)
    IN  /\ issued' = [called |-> TRUE, name |-> name, id |-> id, net |-> net,
                      uid |-> store["user_id"],
                      a |-> a, b |-> b,
                      runA |-> IF a.defined /\ ~a.direct
                               THEN RequestA(a, store["token"], net, listeners)
                               ELSE NotDefined,
                      runB |-> IF b.defined /\ ~b.direct
                               THEN RequestB(b, store["token"], net, listeners)
                               ELSE NotDefined]
        /\ UNCHANGED <<store, listeners, lastEmit, hist, calls, pwCall>>

-----------------------------------------------------------------------------
(* Navigation channel operations                                           *)

\* a registration that replays the last publish if nobody received it
ListenToNavigation_Replay(cb) ==
    /\ Len(listeners) < MaxListeners
    /\ listeners' = AddListener(listeners, cb)
    /\ hist' = HistAfterOn(hist, cb, listeners)
    /\ lastEmit' = IF lastEmit.emitted /\ lastEmit.invoked = <<>>
                   THEN Emit(<<cb>>, lastEmit.path)
                   ELSE lastEmit
    /\ UNCHANGED <<store, calls>>
    /\ UNCHANGED <<issued, pwCall>>

\* listenToNavigation(callback)
ListenToNavigation(cb) ==
    /\ Len(listeners) < MaxListeners
    /\ listeners' = AddListener(listeners, cb)
    /\ hist' = HistAfterOn(hist, cb, listeners)
    /\ UNCHANGED <<store, lastEmit, calls>>
    /\ UNCHANGED <<issued, pwCall>>

\* removeNavigationListener(callback)
RemoveNavigationListener(cb) ==
    /\ listeners' = RemoveListener(listeners, cb)
    /\ hist' = HistAfterOff(hist, cb, listeners)
    /\ UNCHANGED <<store, lastEmit, calls>>
    /\ UNCHANGED <<issued, pwCall>>

\* navigateTo(path)
NavigateTo(path) ==
    /\ lastEmit' = Emit(listeners, path)
    /\ hist' = HistAfterNav(hist)
    /\ UNCHANGED <<store, listeners, calls>>
    /\ UNCHANGED <<issued, pwCall>>

-----------------------------------------------------------------------------
(* Specifications                                                          *)

InitCommon ==
    /\ store = [k \in {"token", "user_id"} |-> NULL]
    /\ lastEmit = NoEmit
    /\ hist = [cb \in Callbacks |-> "other"]
    /\ calls = [c \in Calls |-> IdleCall]
    /\ issued = NotIssued
    /\ pwCall = IdlePassword

\* the pipeline starts with the subscribers the navigation consumer has
\* registered
Init ==
    /\ InitCommon
    /\ listeners \in Subscriptions

Next ==
    \/ \E c \in Calls, useToken \in BOOLEAN, ct \in ContentTypes : Request(c, useToken, ct)
    \/ \E c \in Calls : RequestInterceptor(c)
    \/ \E c \in Calls, net \in NetOutcomes : ResponseInterceptor(c, net)
    \/ \E c \in Calls : Continuation(c)
    \/ \E c \in Calls : Return(c)
    \/ \E t \in Tokens, u \in UserIds : StoreCredentials(t, u)
    \/ ClearCredentials

Spec == Init /\ [][Next]_vars

\* the endpoint functions of the two copies, side by side
\* what localStorage holds when an endpoint function is called: nothing,
\* the credentials of a login, or those credentials with the token removed
Stores ==
    {[token |-> NULL, user_id |-> NULL]}
    \cup {[token |-> t, user_id |-> u] : t \in Tokens \cup {NULL}, u \in UserIds}

InitEndpoints ==
    /\ store \in Stores
    /\ listeners \in Subscriptions
    /\ lastEmit = NoEmit
    /\ hist = [cb \in Callbacks |-> "other"]
    /\ calls = [c \in Calls |-> IdleCall]
    /\ issued = NotIssued
    /\ pwCall = IdlePassword

NextEndpoints ==
    \E name \in EndpointNames, id \in EndpointIds, net \in NetOutcomes :
        CallEndpoint(name, id, net)

SpecEndpoints == InitEndpoints /\ [][NextEndpoints]_vars

\* setUserPassword next to the credential flows
NextPassword ==
    \/ \E t \in ShortLivedTokens : SetUserPassword(t)
    \/ \E net \in NetOutcomes : SetUserPasswordSettles(net)
    \/ SetUserPasswordReturns
    \/ \E t \in Tokens, u \in UserIds : StoreCredentials(t, u)
    \/ ClearCredentials

SpecPassword == Init /\ [][NextPassword]_vars

InitNav ==
    /\ InitCommon
    /\ listeners = <<>>

NextNav ==
    \/ \E cb \in Callbacks : ListenToNavigation(cb)
    \/ \E cb \in Callbacks : RemoveNavigationListener(cb)
    \/ \E p \in Paths : NavigateTo(p)

SpecNav == InitNav /\ [][NextNav]_vars

-----------------------------------------------------------------------------
(* Properties of the request pipeline (checked under Spec)                 *)

Settled(c) == calls[c].pc = "settled"

\* the network call of c failed with an HTTP response of the given kind
Got401(c) == calls[c].net.hasResponse /\ calls[c].net.status = 401
GotServerError(c) ==
    /\ calls[c].net.hasResponse
    /\ calls[c].net.status \notin 200..299
    /\ calls[c].net.status # 401
GotNoResponse(c) == ~calls[c].net.hasResponse
GotSuccess(c) == calls[c].net.hasResponse /\ calls[c].net.status \in 200..299

IsSuccessResult(v) == DOMAIN v = {"success", "data"} /\ v.success = TRUE

IsErrorResult(v) ==
    /\ DOMAIN v = {"success", "error_message", "message_type"}
    /\ v.success = FALSE
    /\ v.error_message \notin {NULL, UNDEF}
    /\ v.message_type \notin {NULL, UNDEF}

\* C1: a call whose network call fails with HTTP 401 is rejected with exactly
\* {success:false, error_message:"Your session has expired. Please login
\* again.", message_type:"invalid_credentials"}.
C1_SessionExpiredDelivered ==
    \A c \in Calls :
        Settled(c) /\ Got401(c) =>
            calls[c].result =
                Rejected(ErrorResult(SessionExpiredMessage, "invalid_credentials"))

\* C2: when a call that failed with HTTP 401 completes, the store holds no
\* token and exactly one navigate signal, with path "/", was emitted for it.
C2_TokenClearedOneSignal ==
    \A c \in Calls :
        Settled(c) /\ Got401(c) =>
            /\ store["token"] = NULL
            /\ calls[c].navs = <<"/">>

C2_Witness ==
    \E c \in Calls :
        /\ Settled(c) /\ Got401(c)
        /\ calls[c].authorization = "Bearer T1"
        /\ calls[c].storeBefore["token"] = "T1"
        /\ store["token"] = NULL
        /\ calls[c].navs = <<"/">>

\* C3: a call that fails with a non-401 HTTP error whose body carries
\* non-empty error_message and message_type is rejected with success=false
\* and those two fields unchanged.
C3_ServerFieldsDelivered ==
    \A c \in Calls :
        (/\ Settled(c) /\ GotServerError(c)
         /\ ~calls[c].net.data.isNull
         /\ Truthy(calls[c].net.data.error_message)
         /\ Truthy(calls[c].net.data.message_type)) =>
            calls[c].result =
                Rejected(ErrorResult(calls[c].net.data.error_message,
                                     calls[c].net.data.message_type))

\* C4: a call whose network call fails without a response is rejected with
\* exactly {success:false, error_message:"An unexpected error occurred.",
\* message_type:"unexpected_error"}; the stored token is unchanged and no
\* navigation signal is emitted.
C4_NetworkFailure ==
    \A c \in Calls :
        Settled(c) /\ GotNoResponse(c) =>
            /\ calls[c].result = Rejected(ErrorResult(UnexpectedMessage, "unexpected_error"))
            /\ store["token"] = calls[c].storeBefore["token"]
            /\ calls[c].navs = <<>>

C4_Witness ==
    \E c \in Calls :
        /\ Settled(c) /\ GotNoResponse(c)
        /\ store["token"] = "T1"
        /\ listeners # <<>>
        /\ calls[c].result = Rejected(ErrorResult(UnexpectedMessage, "unexpected_error"))

\* C5: every completed call yields one outcome, a SuccessResult or an
\* ErrorResult; no AxiosError and no other exception reaches the caller.
C5_StructuredOutcome ==
    \A c \in Calls :
        Settled(c) =>
            /\ calls[c].result.settled \in {"resolved", "rejected"}
            /\ IsSuccessResult(calls[c].result.value) \/ IsErrorResult(calls[c].result.value)
            /\ ~IsAxiosError(calls[c].result.value)

C5_Witness ==
    \E c \in Calls :
        /\ Settled(c)
        /\ "exception" \in DOMAIN calls[c].thrown
        /\ IsErrorResult(calls[c].result.value)

\* C6: a response in the success range resolves the promise with
\* {success:true, data:<response body>}; every failure rejects it with an
\* ErrorResult; it never resolves with success=false nor rejects with
\* success=true.
C6_AsymmetricDelivery ==
    \A c \in Calls :
        Settled(c) =>
            /\ GotSuccess(c) =>
                   calls[c].result = Resolved(SuccessResult(calls[c].net.data))
            /\ ~GotSuccess(c) =>
                   /\ calls[c].result.settled = "rejected"
                   /\ IsErrorResult(calls[c].result.value)
            /\ calls[c].result.settled = "resolved" =>
                   IsSuccessResult(calls[c].result.value)
            /\ calls[c].result.settled = "rejected" =>
                   IsErrorResult(calls[c].result.value)

C6_Witness ==
    /\ lastEmit.emitted     \* an earlier call was rejected for a 401
    /\ \E c \in Calls :
        /\ Settled(c) /\ GotSuccess(c)
        /\ calls[c].net.status = 204
        /\ calls[c].result.settled = "resolved"

\* the step in which the request interceptor of c runs
InterceptorRuns(c) == calls[c].pc = "called" /\ calls'[c].pc = "sent"

\* C7: a request with attachToken=true carries an Authorization header iff
\* the store holds a non-empty token when the request interceptor runs, and
\* the header is then "Bearer " followed by that token; without a token the
\* request is still issued, without the header.
C7_BearerIffToken ==
    [][\A c \in Calls :
          InterceptorRuns(c) /\ calls[c].useToken =>
              /\ calls'[c].authorization # NULL <=> store["token"] \notin {NULL, ""}
              /\ store["token"] \notin {NULL, ""} =>
                     calls'[c].authorization = "Bearer " \o store["token"]
              /\ calls'[c].attempts = 1]_vars

C7_Witness ==
    /\ \E c \in Calls :
        /\ calls[c].pc = "sent" /\ calls[c].useToken
        /\ calls[c].authorization = "Bearer T2"
    /\ \E c \in Calls :
        /\ calls[c].pc = "sent" /\ calls[c].useToken
        /\ calls[c].authorization = NULL
        /\ calls[c].attempts = 1

\* C8: a request with attachToken=false carries no Authorization header,
\* whatever token the store holds.
C8_NoHeaderWithoutFlag ==
    \A c \in Calls :
        calls[c].pc \in {"sent", "received", "settled"} /\ ~calls[c].useToken =>
            calls[c].authorization = NULL

C8_Witness ==
    \E c \in Calls :
        /\ calls[c].pc = "sent" /\ ~calls[c].useToken
        /\ store["token"] = "T1"
        /\ calls[c].authorization = NULL

\* a step of the pipeline (the steps of the credential flows leave calls
\* unchanged)
PipelineStep == calls' # calls

C12_OneAttempt ==
    \A c \in Calls :
        /\ calls[c].pc \in {"idle", "called"} => calls[c].attempts = 0
        /\ calls[c].pc \in {"sent", "received", "settled"} => calls[c].attempts = 1

C12_Witness ==
    \E c \in Calls :
        /\ Settled(c) /\ GotNoResponse(c)
        /\ calls[c].result.settled = "rejected"
        /\ calls[c].attempts = 1

\* C13: a call that fails with a non-401 HTTP error whose body lacks
\* error_message and/or message_type is rejected with the generic value for
\* each missing field ("An error occurred", "error") and the server's value
\* for a field that is present.
C13_GenericForMissingFields ==
    \A c \in Calls :
        (/\ Settled(c) /\ GotServerError(c)
         /\ ~calls[c].net.data.isNull
         /\ \/ calls[c].net.data.error_message = UNDEF
            \/ calls[c].net.data.message_type = UNDEF) =>
            /\ calls[c].result.settled = "rejected"
            /\ calls[c].result.value =
                   ErrorResult(IF calls[c].net.data.error_message = UNDEF
                               THEN "An error occurred"
                               ELSE calls[c].net.data.error_message,
                               IF calls[c].net.data.message_type = UNDEF
                               THEN "error"
                               ELSE calls[c].net.data.message_type)

\* C16: on a 401 the token is deleted before the navigation signal is
\* emitted and both happen before the rejection is delivered; the callbacks
\* invoked for the signal find no token in the store.
C16_DeleteThenSignalThenReject ==
    \A c \in Calls :
        calls[c].pc \in {"received", "settled"} /\ Got401(c) =>
            /\ SubSeq(calls[c].trace, 1, 2) = <<"removeItem", "navigateTo">>
            /\ calls[c].seen = <<NULL>>
            /\ Settled(c) => calls[c].trace = <<"removeItem", "navigateTo", "reject">>

C16_Witness ==
    \E c \in Calls :
        /\ Settled(c) /\ Got401(c)
        /\ calls[c].storeBefore["token"] = "T2"
        /\ lastEmit.invoked = <<"f", "g">>
        /\ calls[c].seen = <<NULL>>

\* the step in which the response interceptor handles a 401 for c
Handles401(c) == calls[c].pc = "sent" /\ calls'[c].pc = "received" /\ Got401(c)'

\* C17: the handling of a 401 leaves the store without token; only a flow
\* outside the pipeline brings a token back; and a request whose interceptor
\* runs while there is none carries no Authorization header, also when the
\* call was made while a token was still stored.
C17_NoHeaderAfterExpiry ==
    /\ [][\A c \in Calls : Handles401(c) => store'["token"] = NULL]_vars
    /\ [][store["token"] = NULL /\ store'["token"] # NULL =>
             \E t \in Tokens, u \in UserIds : StoreCredentials(t, u)]_vars
    /\ [][\A c \in Calls :
             InterceptorRuns(c) /\ store["token"] = NULL =>
                 calls'[c].authorization = NULL]_vars

C17_Witness ==
    /\ store["token"] = NULL /\ store["user_id"] = "u1"
    /\ lastEmit.emitted
    /\ \E c \in Calls :
        /\ calls[c].pc = "sent" /\ calls[c].useToken
        /\ calls[c].authorization = NULL
    /\ \E c \in Calls :
        /\ calls[c].pc = "sent" /\ calls[c].useToken
        /\ calls[c].authorization = "Bearer T1"

\* C18: of several calls in flight that all fail with 401, each one is
\* rejected with an ErrorResult and emits its own signal "/", and the token
\* is absent afterwards; a call that finds the token already deleted deletes
\* it again without error and without changing the store.
C18_Concurrent401 ==
    \A c \in Calls :
        Settled(c) /\ Got401(c) =>
            /\ calls[c].removed
            /\ store["token"] = NULL
            /\ calls[c].storeBefore["token"] = NULL => store = calls[c].storeBefore
            /\ calls[c].navs = <<"/">>
            /\ lastEmit.emitted /\ lastEmit.path = "/"
            /\ calls[c].result.settled = "rejected"
            /\ IsErrorResult(calls[c].result.value)

\* the second of two calls sent with the same token: the 401 of the first
\* has already deleted it
C18_Witness ==
    \E c \in Calls :
        /\ Settled(c) /\ Got401(c)
        /\ calls[c].authorization = "Bearer T1"
        /\ calls[c].storeBefore["token"] = NULL
        /\ calls[c].storeBefore["user_id"] = "u1"
        /\ calls[c].navs = <<"/">>

\* C20: the ErrorResult thrown by handleApiError in the response
\* interceptor is the one the caller receives, unchanged by the second
\* handleApiError in the catch block of request().
C20_SecondPassKeepsResult ==
    \A c \in Calls :
        Settled(c) /\ IsErrorResult(calls[c].thrown) =>
            calls[c].result = Rejected(calls[c].thrown)

\* the Authorization header a request carries for the token t
Carries(c, t) == calls[c].authorization = "Bearer " \o t

\* C21: a 401 removes the stored token only when it is the token the
\* failing request carried: a token stored while the request was in flight,
\* or any token when the request was sent with attachToken=false, is still
\* stored after the 401.
C21_RemovesOnlyCarriedToken ==
    \A c \in Calls :
        /\ Settled(c) /\ Got401(c)
        /\ Truthy(calls[c].storeBefore["token"])
        /\ ~Carries(c, calls[c].storeBefore["token"])
        => store["token"] = calls[c].storeBefore["token"]

\* the signal of the 401 of c ended in the exception of a callback
SignalThrew(c) ==
    /\ Got401(c)
    /\ calls[c].thrown = Exception("ListenerError")

\* C25: when a navigation callback throws during the signal of a 401, the
\* call is still rejected with an ErrorResult and not with the exception,
\* the token is deleted, the call can be returned from and a new call can
\* be made afterwards.
C25_ThrowingCallbackContained ==
    /\ \A c \in Calls :
          Settled(c) /\ SignalThrew(c) =>
              /\ calls[c].result.settled = "rejected"
              /\ IsErrorResult(calls[c].result.value)
              /\ "exception" \notin DOMAIN calls[c].result.value
              /\ calls[c].removed /\ store["token"] = NULL
              /\ lastEmit.threw /\ lastEmit.path = "/"
              /\ ENABLED Return(c)
    /\ lastEmit.threw /\ Quiescent /\ (\E c \in Calls : calls[c].pc = "idle") =>
          ENABLED (\E c \in Calls, useToken \in BOOLEAN, ct \in ContentTypes :
                      Request(c, useToken, ct))

C25_Witness ==
    \E c \in Calls :
        /\ Settled(c) /\ SignalThrew(c)
        /\ calls[c].storeBefore["token"] = "T1"
        /\ store["token"] = NULL
        /\ lastEmit.invoked = <<"h">>
        /\ IsErrorResult(calls[c].result.value)

-----------------------------------------------------------------------------
(* Properties of the navigation channel (checked under SpecNav)            *)

\* hist[cb] = "on0_off_nav" / "onDup_off_nav": cb was registered, then
\* removed before any publish, and the most recent publish (lastEmit) came
\* after the removal, with no registration of cb since

\* C10 as stated: a callback registered and then removed before any
\* navigateTo call is not invoked by a later navigateTo call.
C10_RemovedNeverInvoked ==
    \A cb \in Callbacks :
        hist[cb] \in {"on0_off_nav", "onDup_off_nav"} =>
            cb \notin Range(lastEmit.invoked)

\* C10 amended: a callback that was not registered, is registered once and
\* then removed before any navigateTo call, is not invoked by any navigateTo
\* call made before it is registered again.
C10_RemovedSoleRegistrationNeverInvoked ==
    \A cb \in Callbacks :
        hist[cb] = "on0_off_nav" =>
            cb \notin Range(lastEmit.invoked)

C10_Witness ==
    /\ hist["f"] = "on0_off_nav"
    /\ lastEmit.emitted
    /\ lastEmit.invoked = <<"g">>
    /\ listeners = <<"g">>

\* the registrations a publish to ls reaches: all of them, or those up to
\* and including the first one that throws
FirstThrowing(ls) ==
    IF \E i \in 1..Len(ls) : ls[i] \in Throwing
    THEN CHOOSE i \in 1..Len(ls) :
            /\ ls[i] \in Throwing
            /\ \A j \in 1..(i - 1) : ls[j] \notin Throwing
    ELSE 0

Reached(ls) == IF FirstThrowing(ls) = 0 THEN ls ELSE SubSeq(ls, 1, FirstThrowing(ls))

\* C11 as stated: one navigateTo(path) call invokes every registered
\* callback with that path, before it returns, in registration order.
C11_InvokesAllInOrder ==
    [][\A p \in Paths :
          NavigateTo(p) =>
              /\ lastEmit'.path = p
              /\ lastEmit'.invoked = listeners]_vars

\* C11 amended: one navigateTo(path) call invokes, with that path, before
\* it returns and in registration order, every registered callback up to
\* and including the first one that throws (all of them when none throws).
C11_InvokesInOrderUntilThrow ==
    [][\A p \in Paths :
          NavigateTo(p) =>
              /\ lastEmit'.emitted
              /\ lastEmit'.path = p
              /\ lastEmit'.invoked = Reached(listeners)
              /\ lastEmit'.threw <=> (FirstThrowing(listeners) # 0)
              /\ listeners' = listeners]_vars

C11_Witness ==
    /\ lastEmit.emitted /\ lastEmit.path = "/chat"
    /\ listeners = <<"g", "f", "g">>
    /\ lastEmit.invoked = <<"g", "f", "g">>
    /\ hist["g"] = "other"

\* C14: removeNavigationListener with a callback that is not registered
\* changes neither the registered callbacks nor their order.
C14_RemoveAbsentIsNoOp ==
    [][\A cb \in Callbacks :
          RemoveNavigationListener(cb) /\ cb \notin Range(listeners) =>
              /\ listeners' = listeners
              /\ lastEmit' = lastEmit]_vars

C14_Witness ==
    /\ hist["g"] = "offAbsent"
    /\ listeners = <<"f", "h">>

\* C15: a navigateTo call made while no callback is registered reaches
\* nobody and leaves nothing behind; registering a callback invokes nothing,
\* so a callback sees only the navigateTo calls made after its registration.
C15_SignalsNotPersisted ==
    [][/\ \A p \in Paths :
            NavigateTo(p) /\ listeners = <<>> =>
                lastEmit'.invoked = <<>> /\ listeners' = <<>>
       /\ \A cb \in Callbacks :
            ListenToNavigation(cb) => lastEmit' = lastEmit]_vars

C15_Witness ==
    /\ lastEmit.emitted /\ lastEmit.invoked = <<>>
    /\ listeners = <<"f">>
    /\ hist["f"] = "on0"

\* every registration adds one and every removal takes away one of the
\* registrations of its callback, and of no other
CountsRegistrations ==
    \A cb \in Callbacks :
        /\ ListenToNavigation(cb) =>
               \A d \in Callbacks :
                   Count(d, listeners') = Count(d, listeners) + (IF d = cb THEN 1 ELSE 0)
        /\ RemoveNavigationListener(cb) /\ cb \in Range(listeners) =>
               \A d \in Callbacks :
                   Count(d, listeners') = Count(d, listeners) - (IF d = cb THEN 1 ELSE 0)

\* C24 as stated: a callback registered k times is invoked k times by each
\* navigateTo, and each removal removes exactly one registration.
C24_InvokedPerRegistration ==
    [][/\ CountsRegistrations
       /\ \A p \in Paths :
              NavigateTo(p) =>
                  \A cb \in Callbacks :
                      Count(cb, lastEmit'.invoked) = Count(cb, listeners)]_vars

\* C24 amended: registrations form a multiset, each registration adds one
\* and each removal removes exactly one; a navigateTo invokes a callback
\* once per registration it reaches, which is every registration when no
\* registered callback throws.
C24_InvokedPerReachedRegistration ==
    [][/\ CountsRegistrations
       /\ \A p \in Paths :
              NavigateTo(p) =>
                  \A cb \in Callbacks :
                      /\ Count(cb, lastEmit'.invoked) = Count(cb, Reached(listeners))
                      /\ Range(listeners) \cap Throwing = {} =>
                             Count(cb, lastEmit'.invoked) = Count(cb, listeners)]_vars

\* f registered three times, removed once, then a publish: invoked twice
C24_Witness ==
    /\ hist["f"] = "onDup_off_nav"
    /\ listeners = <<"f", "f">>
    /\ lastEmit.emitted /\ lastEmit.invoked = <<"f", "f">>

-----------------------------------------------------------------------------
(* Properties of the two copies                                            *)

SameRequest(a, b) ==
    /\ a.direct = b.direct
    /\ a.method = b.method
    /\ a.url = b.url
    /\ a.useToken = b.useToken
    /\ a.contentType = b.contentType

InBothCopies == issued.called /\ issued.a.defined /\ issued.b.defined

\* C19: the two copies run the same request pipeline, and every endpoint
\* function present in both uses the same method, path, attach-token flag
\* and content type, except archiveConversation, whose path holds the
\* users/{user_id} segment in src/AxiosApi.tsx and omits it in
\* src/unnamed/part_000.
C19_CopiesEquivalent ==
    InBothCopies =>
        /\ issued.runA = issued.runB
        /\ issued.name # "archiveConversation" => SameRequest(issued.a, issued.b)
        /\ issued.name = "archiveConversation" =>
               /\ issued.a.method = issued.b.method
               /\ issued.a.useToken = issued.b.useToken
               /\ issued.a.contentType = issued.b.contentType
               /\ SubSeq(issued.a.url, 3, 4) = <<"users", issued.uid>>
               /\ issued.b.url = SubSeq(issued.a.url, 1, 2)
                                    \o SubSeq(issued.a.url, 5, Len(issued.a.url))

C19_Witness ==
    /\ InBothCopies
    /\ issued.name = "archiveConversation"
    /\ issued.a.url # issued.b.url
    /\ issued.uid = "u1"
    /\ issued.net.hasResponse /\ issued.net.status = 401
    /\ issued.runB.effects = <<"removeItem", "navigateTo">>

-----------------------------------------------------------------------------
(* Properties of setUserPassword (checked under SpecPassword)              *)

PasswordSettled == pwCall.pc = "settled"

PasswordGot401 == pwCall.net.hasResponse /\ pwCall.net.status = 401

\* an object {success:false, error_message, message_type}
IsFailureObject(v) ==
    /\ DOMAIN v = {"success", "error_message", "message_type"}
    /\ v.success = FALSE

\* C22: whenever the POST of setUserPassword completes, with a status of
\* the success range or with a failure, the promise settles with
\* {success:true, data} or {success:false, error_message, message_type},
\* never with undefined.
C22_AlwaysResultObject ==
    PasswordSettled =>
        /\ pwCall.result.value # Undefined
        /\ IsSuccessResult(pwCall.result.value) \/ IsFailureObject(pwCall.result.value)

\* C23: setUserPassword sends "Bearer " and the short-lived token of its
\* parameters, never the stored token, and uses no call of the pipeline; on
\* a 401 it deletes the stored token, emits no navigation signal and
\* resolves its promise with {success:false, message_type:
\* "invalid_credentials"}.
C23_Bypasses401Handling ==
    /\ pwCall.pc # "idle" =>
          /\ pwCall.authorization = "Bearer " \o pwCall.shortLivedToken
          /\ pwCall.shortLivedToken \in ShortLivedTokens
          /\ \A t \in Tokens : pwCall.authorization # "Bearer " \o t
          /\ \A c \in Calls : calls[c] = IdleCall
    /\ PasswordSettled /\ PasswordGot401 =>
          /\ store["token"] = NULL
          /\ store["user_id"] = pwCall.storeBefore["user_id"]
          /\ lastEmit = NoEmit
          /\ pwCall.result.settled = "resolved"
          /\ IsFailureObject(pwCall.result.value)
          /\ pwCall.result.value.message_type = "invalid_credentials"

\* a 401 for setUserPassword while a token is stored and a subscriber is
\* registered
C23_Witness ==
    /\ PasswordSettled /\ PasswordGot401
    /\ pwCall.storeBefore["token"] = "T1"
    /\ store["token"] = NULL
    /\ listeners = <<"f", "g">>
    /\ pwCall.authorization = "Bearer S1"

====
